---------------------------- MODULE Spec2Model ----------------------------
(***************************************************************************)
(* Model of trading_helpers: the CSV candle store (_CSVCandles), its       *)
(* reconciliation loop (download_or_read) and the candle series algebra    *)
(* (_Candles).                                                             *)
(*                                                                         *)
(* Time is counted in minutes; a datetime is the number of minutes since   *)
(* midnight of day 0, so date() is integer division by MinutesPerDay and a *)
(* timedelta is a difference of two datetimes.  Prices are integral.       *)
(***************************************************************************)
EXTENDS Integers, Sequences, FiniteSets, TLC

VARIABLES
    file,       \* the cache file: NoFile, or its lines (header first)
    pc,         \* position of the running call
    from_,      \* window start of the running read / reconciliation run
    to,         \* window end
    interval,   \* CandleInterval of the running call
    candles,    \* local `candles` of _insert / download_or_read
    data,       \* local `data` of _insert (the lines read before the rewrite)
    ret,        \* outcome of the last completed call
    retry,      \* loop counter of download_or_read
    reads,      \* number of _read attempts of the running reconciliation run
    fetched,    \* what the last get_candles call of the run answered
    fetches,    \* number of get_candles calls of the run
    self,       \* left operand series of the algebra (`self`)
    other,      \* right operand series (`other`)
    func_name,  \* the requested Candle operator
    i1,         \* cursor into self
    i2,         \* cursor into other
    new_candles \* the output list being built by the algebra

vars == <<file, pc, from_, to, interval, candles, data, ret, retry, reads,
          fetched, fetches, self, other, func_name, i1, i2, new_candles>>

storeVars == <<file, from_, to, interval, candles, data, ret>>
runVars == <<retry, reads, fetched, fetches>>
algebraVars == <<self, other, func_name, i1, i2, new_candles>>

-----------------------------------------------------------------------------
(* Bounds of the model *)

\* most data rows a cache file holds
MaxRows == 3
\* most candles one answer of the external source holds
MaxFetch == 3
\* most candles of a series the algebra is applied to
MaxLen == 3
\* most data rows of a cache file that was edited by hand
MaxEdited == 2

-----------------------------------------------------------------------------
(* schemas.py: CandleInterval *)

MIN_1 == -1
MIN_2 == -2
MIN_3 == -3
MIN_5 == -5
MIN_10 == -10
MIN_15 == -15
MIN_30 == -30
HOUR == -60
HOUR_2 == -120
HOUR_4 == -240
DAY == -1440
WEEK == -10080
MONTH == -302400

CandleInterval ==
    {MIN_1, MIN_2, MIN_3, MIN_5, MIN_10, MIN_15, MIN_30, HOUR, HOUR_2, HOUR_4,
     DAY, WEEK, MONTH}

SubDaily == {MIN_1, MIN_2, MIN_3, MIN_5, MIN_10, MIN_15, MIN_30, HOUR, HOUR_2, HOUR_4}

MinutesPerDay == 1440

\* datetime.date()
Date(t) == t \div MinutesPerDay

-----------------------------------------------------------------------------
(* schemas.py: _Candle *)

Candle(o, h, l, c, v, t) ==
    [open |-> o, high |-> h, low |-> l, close |-> c, volume |-> v, dt |-> t]

\* The instants candles of the store carry and windows are asked for: day 0 at
\* 00:00, 00:01, 00:03, 00:07 and 01:02 (gaps of 1, 2, 3, 6, 7, 61 and 62 minutes
\* occur among them) and midnight of day 1.
Instants == {0, 1, 3, 7, 62, MinutesPerDay}

\* The candle the market printed at instant t.
CandleAt(t) ==
    IF t % 2 = 0 THEN Candle(1, 2, 0, 1, 10, t) ELSE Candle(2, 3, 1, 2, 20, t)

StoreCandles == {CandleAt(t) : t \in Instants}

\* all sequences over S of length at most n
SeqsUpTo(S, n) == UNION {[1..k -> S] : k \in 0..n}

-----------------------------------------------------------------------------
(* csv_candles.py: the row format.  A line is the sequence of its cells (the  *)
(* texts between DELIMITERs); a cell is modelled by its lexical class and     *)
(* value: Cell("float", 1) is the text "1.0", Cell("int", 10) the text "10",  *)
(* Cell("iso", t) the text of datetime t, Cell("open", 0) the word "open".    *)

Cell(lex, val) == [lex |-> lex, val |-> val]

\* str(v) of a float, an int and a datetime
StrFloat(x) == Cell("float", x)
StrInt(n) == Cell("int", n)
StrDatetime(t) == Cell("iso", t)

COLUMNS == <<"open", "high", "low", "close", "volume", "time">>

HeaderLine == [k \in 1..Len(COLUMNS) |-> Cell(COLUMNS[k], 0)]

NoFile == <<>>

\* _append's encoding of one candle
EncodeRow(c) ==
    <<StrFloat(c.open), StrFloat(c.high), StrFloat(c.low), StrFloat(c.close),
      StrInt(c.volume), StrDatetime(c.dt)>>

EncodeRows(cs) == [k \in 1..Len(cs) |-> EncodeRow(cs[k])]

\* float(value), int(value), datetime.fromisoformat(value): ok is FALSE where
\* Python raises ValueError
ParseFloat(cell) == [ok |-> cell.lex \in {"float", "int"}, val |-> cell.val]
ParseInt(cell) == [ok |-> cell.lex = "int", val |-> cell.val]
ParseIso(cell) == [ok |-> cell.lex = "iso", val |-> cell.val]

Min(a, b) == IF a <= b THEN a ELSE b

\* the inner loop of _read: zip(columns, str_values), converting by column name
RECURSIVE DecodeCells(_, _, _, _)
DecodeCells(columns, cells, k, values) ==
    IF k > Min(Len(columns), Len(cells)) THEN [ok |-> TRUE, values |-> values]
    ELSE LET column == columns[k].lex
             p == IF column \in {"open", "high", "low", "close"} THEN ParseFloat(cells[k])
                  ELSE IF column = "volume" THEN ParseInt(cells[k])
                  ELSE IF column = "time" THEN ParseIso(cells[k])
                  ELSE [ok |-> TRUE, val |-> 0]
             known == column \in {"open", "high", "low", "close", "volume", "time"}
         IN  IF ~p.ok THEN [ok |-> FALSE, values |-> values]
             ELSE DecodeCells(columns, cells, k + 1,
                              IF known THEN Append(values, p.val) ELSE values)

\* row2candle: the candle built from the decoded values in column order
Row2Candle(values) ==
    Candle(values[1], values[2], values[3], values[4], values[5], values[6])

-----------------------------------------------------------------------------
(* csv_candles.py: _read *)

Returned(cs) == [kind |-> "return", at |-> 0, candles |-> cs]
Raised(kind) == [kind |-> kind, at |-> 0, candles |-> <<>>]
CSVCandlesNeedInsert(to_temp) == [kind |-> "NeedInsert", at |-> to_temp, candles |-> <<>>]
CSVCandlesNeedAppend(from_temp, cs) == [kind |-> "NeedAppend", at |-> from_temp, candles |-> cs]

\* the condition of lines 147-155, with Python's precedence of `and` over `or`
NeedAppendCondition(t, to_, iv) ==
    LET dt_delta == to_ - t
    IN  \/ \/ (Date(t) = Date(to_) /\ iv = MIN_1 /\ dt_delta > 1 + 1)
           \/ (iv = MIN_5 /\ dt_delta > 5 + 1)
           \/ (iv = HOUR /\ dt_delta > 60 + 1)
        \/ (Date(t) < Date(to_) /\ iv = DAY)

\* lines 142-143 without the DAY exception of line 143
NeedInsertConditionNoDayException(t, frm, iv) == t > frm

\* the condition of lines 142-143
NeedInsertCondition(t, frm, iv) ==
    t > frm /\ ~(iv = DAY /\ Date(t) = Date(frm))

RECURSIVE ReadRows(_, _, _, _, _, _, _)
ReadRows(columns, rows, i, acc, frm, to_, iv) ==
    IF i > Len(rows) THEN Returned(acc)
    ELSE LET d == DecodeCells(columns, rows[i], 1, <<>>)
         IN  IF ~d.ok THEN Raised("ValueError")
             ELSE IF Len(d.values) < 6 THEN Raised("TypeError")
             ELSE LET candle == Row2Candle(d.values)
                      acc2 == IF frm <= candle.dt /\ candle.dt <= to_
                              THEN Append(acc, candle) ELSE acc
                  IN  IF i = 1 /\ NeedInsertCondition(candle.dt, frm, iv)
                      THEN CSVCandlesNeedInsert(candle.dt)
                      ELSE IF /\ i = Len(rows)
                              /\ candle.dt < to_
                              /\ NeedAppendCondition(candle.dt, to_, iv)
                      THEN CSVCandlesNeedAppend(candle.dt, acc2)
                      ELSE ReadRows(columns, rows, i + 1, acc2, frm, to_, iv)

Read(f, frm, to_, iv) ==
    ReadRows(Head(f), Tail(f), 1, <<>>, frm, to_, iv)

-----------------------------------------------------------------------------
(* csv_candles.py: _prepare_new, _append and the steps of _insert *)

PrepareNew == <<HeaderLine>>

\* _append opening the file with mode 'w' in place of 'a'
AppendCandlesTruncating(f, cs) == IF cs = <<>> THEN f ELSE EncodeRows(cs)

AppendCandles(f, cs) == IF cs = <<>> THEN f ELSE f \o EncodeRows(cs)

\* f.writelines(data) in place of data[1:]: the old header is written again
WriteOldBodyWithHeader(f, lines) == f \o lines

\* f.writelines(data[1:]) in append mode
WriteOldBody(f, lines) == f \o Tail(lines)

Body(f) == Tail(f)


-----------------------------------------------------------------------------
(* The outcome of the last completed call: the call (op), the call completed  *)
(* before it (prev), and what it returned or raised.                          *)

Outcome(op, prev, r) ==
    [op |-> op, prev |-> prev, kind |-> r.kind, at |-> r.at, candles |-> r.candles]

NoOutcome == Outcome("none", "none", Returned(<<>>))

\* the state of the parts of the model a specification does not use
RunIdle == retry = 0 /\ reads = 0 /\ fetched = <<>> /\ fetches = 0
AlgebraIdle ==
    /\ self = <<>> /\ other = <<>> /\ func_name = "__add__"
    /\ i1 = 0 /\ i2 = 0 /\ new_candles = <<>>

-----------------------------------------------------------------------------
(* The Candle Store: calls of _read, _append and _insert on one cache file.   *)
(* _insert is three file operations after its read; each is a step.           *)

InitStore ==
    /\ file = PrepareNew
    /\ pc = "idle"
    /\ from_ = 0 /\ to = 0 /\ interval = MIN_1
    /\ candles = <<>> /\ data = <<>>
    /\ ret = NoOutcome
    /\ RunIdle /\ AlgebraIdle

\* await csv._read(from_, to, interval)
CallRead(frm, to_, iv) ==
    /\ pc = "idle"
    /\ from_' = frm /\ to' = to_ /\ interval' = iv
    /\ ret' = Outcome("read", ret.op, Read(file, frm, to_, iv))
    /\ UNCHANGED <<file, pc, candles, data>>

\* await csv._append(cs); the locals and the outcome of earlier calls are gone
CallAppend(cs) ==
    /\ pc = "idle"
    /\ Len(Body(file)) + Len(cs) <= MaxRows
    /\ candles' = cs
    /\ file' = AppendCandles(file, cs)
    /\ ret' = Outcome("append", "none", Returned(<<>>))
    /\ from_' = 0 /\ to' = 0 /\ interval' = MIN_1
    /\ data' = <<>>
    /\ UNCHANGED pc

\* _insert, lines 173-174: data = await f.readlines()
CallInsert(cs) ==
    /\ pc = "idle"
    /\ Len(Body(file)) + Len(cs) <= MaxRows
    /\ candles' = cs
    /\ data' = file
    /\ pc' = "insert_prepare_new"
    /\ ret' = NoOutcome
    /\ from_' = 0 /\ to' = 0 /\ interval' = MIN_1
    /\ UNCHANGED file

\* _prepare_new opening the file with mode 'a' in place of 'w'
InsertPrepareNewAppendMode ==
    /\ pc = "insert_prepare_new"
    /\ file' = file \o PrepareNew
    /\ pc' = "insert_append"
    /\ UNCHANGED <<from_, to, interval, candles, data, ret>>

\* _insert, line 176: await self._prepare_new()
InsertPrepareNew ==
    /\ pc = "insert_prepare_new"
    /\ file' = PrepareNew
    /\ pc' = "insert_append"
    /\ UNCHANGED <<from_, to, interval, candles, data, ret>>

\* _insert, line 177: await self._append(candles)
InsertAppend ==
    /\ pc = "insert_append"
    /\ file' = AppendCandles(file, candles)
    /\ pc' = "insert_writelines"
    /\ UNCHANGED <<from_, to, interval, candles, data, ret>>

\* _insert, lines 178-179: f.writelines(data[1:])
InsertWritelines ==
    /\ pc = "insert_writelines"
    /\ file' = WriteOldBody(file, data)
    /\ pc' = "idle"
    /\ ret' = Outcome("insert", "none", Returned(<<>>))
    /\ UNCHANGED <<from_, to, interval, candles, data>>

\* a read of the whole file right after an insert
ReadWholeFile(frm, to_, iv) ==
    /\ ret.op = "insert"
    /\ \A k \in 2..Len(file) : frm <= file[k][6].val /\ file[k][6].val <= to_
    /\ CallRead(frm, to_, iv)

NextStore ==
    \/ /\ \E cs \in SeqsUpTo(StoreCandles, MaxRows - Len(Body(file))) : CallAppend(cs)
       /\ UNCHANGED <<runVars, algebraVars>>
    \/ /\ \E cs \in SeqsUpTo(StoreCandles, MaxRows - Len(Body(file))) : CallInsert(cs)
       /\ UNCHANGED <<runVars, algebraVars>>
    \/ /\ InsertPrepareNew
       /\ UNCHANGED <<runVars, algebraVars>>
    \/ /\ InsertAppend
       /\ UNCHANGED <<runVars, algebraVars>>
    \/ /\ InsertWritelines
       /\ UNCHANGED <<runVars, algebraVars>>
    \/ /\ \E frm \in Instants, to_ \in Instants, iv \in CandleInterval :
            ReadWholeFile(frm, to_, iv)
       /\ UNCHANGED <<runVars, algebraVars>>

SpecStore == InitStore /\ [][NextStore]_vars

-----------------------------------------------------------------------------
(* The Candle Store on a process that may die.  _insert awaits between its    *)
(* file operations (lines 174, 176, 177, 179); the process can end at any of  *)
(* these points and what is on disk stays.                                    *)

CrashPoint ==
    [insert_prepare_new |-> "crashed_after_readlines",
     insert_append |-> "crashed_after_prepare_new",
     insert_writelines |-> "crashed_after_append"]

Crash ==
    /\ pc \in DOMAIN CrashPoint
    /\ pc' = CrashPoint[pc]
    /\ UNCHANGED <<file, from_, to, interval, candles, data, ret>>

NextCrash ==
    \/ NextStore
    \/ /\ Crash
       /\ UNCHANGED <<runVars, algebraVars>>

SpecCrash == InitStore /\ [][NextCrash]_vars

-----------------------------------------------------------------------------
(* _read as a function of the file, the window and the interval: one call on  *)
(* a file holding any rows the store can have written.                        *)

InitRead ==
    /\ \E cs \in SeqsUpTo(StoreCandles, MaxRows) : file = AppendCandles(PrepareNew, cs)
    /\ pc = "idle"
    /\ from_ \in Instants /\ to \in Instants /\ from_ <= to
    /\ interval \in CandleInterval
    /\ candles = <<>> /\ data = <<>>
    /\ ret = NoOutcome
    /\ RunIdle /\ AlgebraIdle

NextRead ==
    /\ ret.op = "none"
    /\ CallRead(from_, to, interval)
    /\ UNCHANGED <<runVars, algebraVars>>

SpecRead == InitRead /\ [][NextRead]_vars

-----------------------------------------------------------------------------
(* _read on a file whose rows need not be what _append wrote: a row may lack  *)
(* its last or its first cell, or carry one cell more.                        *)

RowShapes == {"written", "no_time", "no_open", "extra"}

ShapedRow(c, shape) ==
    IF shape = "no_time" THEN SubSeq(EncodeRow(c), 1, Len(COLUMNS) - 1)
    ELSE IF shape = "no_open" THEN Tail(EncodeRow(c))
    ELSE IF shape = "extra" THEN Append(EncodeRow(c), StrFloat(9))
    ELSE EncodeRow(c)

EditedRows == {ShapedRow(c, shape) : c \in StoreCandles, shape \in RowShapes}

InitDecode ==
    /\ \E rows \in SeqsUpTo(EditedRows, MaxEdited) : file = PrepareNew \o rows
    /\ pc = "idle"
    /\ from_ \in Instants /\ to \in Instants /\ from_ <= to
    /\ interval \in {MIN_1, DAY}
    /\ candles = <<>> /\ data = <<>>
    /\ ret = NoOutcome
    /\ RunIdle /\ AlgebraIdle

SpecDecode == InitDecode /\ [][NextRead]_vars


-----------------------------------------------------------------------------
(* csv_candles.py: download_or_read (the reference implementation of lines    *)
(* 60-115).  get_candles is the external source: it answers any time-ordered  *)
(* candles, of which only the last may be an in-progress bar                  *)
(* (is_complete False), whose volume is still short of the bar's final one.   *)

SourceCandle(t, complete) ==
    [open |-> CandleAt(t).open, high |-> CandleAt(t).high, low |-> CandleAt(t).low,
     close |-> CandleAt(t).close,
     volume |-> IF complete THEN CandleAt(t).volume ELSE CandleAt(t).volume - 1,
     dt |-> t, is_complete |-> complete]

Increasing(ts) == \A k \in 2..Len(ts) : ts[k - 1] < ts[k]

\* the instants of runs (windows, cached rows and the source's candles): day 0
\* at 00:00, 00:01 and 00:07 (gaps of 1, 6 and 7 minutes: within and beyond the
\* tolerances of MIN_1 and MIN_5) and midnight of day 1
RunInstants == {0, 1, 7, MinutesPerDay}

\* the answers get_candles may give
Answers ==
    {[k \in 1..Len(ts) |-> SourceCandle(ts[k], k < Len(ts) \/ complete)] :
        ts \in {x \in SeqsUpTo(RunInstants, MaxFetch) : Increasing(x)},
        complete \in BOOLEAN}

\* the cache files a run may find: none, or time-ordered rows
FoundFiles ==
    {NoFile} \cup
    {AppendCandles(PrepareNew, [k \in 1..Len(ts) |-> CandleAt(ts[k])]) :
        ts \in {x \in SeqsUpTo(RunInstants, MaxRows) : Increasing(x)}}

\* the intervals runs are made with: two the tail check names, one sub-daily
\* interval it does not name, and DAY
RunIntervals == {MIN_1, MIN_5, MIN_15, DAY}

\* line 88 without its [1:]
DropFirstKeepsAll(cs) == cs

\* candles[1:], candles[:-1], candles[-1]
DropFirst(cs) == IF cs = <<>> THEN cs ELSE Tail(cs)
DropLast(cs) == IF cs = <<>> THEN cs ELSE SubSeq(cs, 1, Len(cs) - 1)
Last(cs) == cs[Len(cs)]

\* _insert as a whole: lines 173-179
Insert(f, cs) == WriteOldBody(AppendCandles(PrepareNew, cs), f)

InitRun ==
    /\ file \in FoundFiles
    /\ from_ \in RunInstants /\ to \in RunInstants /\ from_ <= to
    /\ interval \in RunIntervals
    /\ pc = "start"
    /\ candles = <<>> /\ data = <<>>
    /\ ret = NoOutcome
    /\ RunIdle
    /\ AlgebraIdle

Finish(r) ==
    /\ pc' = "done"
    /\ ret' = Outcome("download_or_read", ret.op, r)

\* lines 68-79: the first access creates the file from the source's answer;
\* otherwise the loop of line 81 is entered
RunStart ==
    /\ pc = "start"
    /\ IF file = NoFile
       THEN \E answer \in Answers :
               /\ file' = AppendCandles(PrepareNew, answer)
               /\ candles' = answer
               /\ Finish(Returned(answer))
               /\ fetched' = answer /\ fetches' = fetches + 1
               /\ UNCHANGED <<retry, reads>>
       ELSE /\ pc' = "loop"
            /\ retry' = 1
            /\ UNCHANGED <<file, candles, ret, reads, fetched, fetches>>
    /\ UNCHANGED <<from_, to, interval, data>>

\* line 81 and after the handling of signal ex: the next iteration, or the end
\* of the loop and of the function, which then returns None
Continue(ex) ==
    /\ retry' = retry + 1
    /\ IF retry = 3
       THEN Finish([kind |-> "None", at |-> 0, candles |-> <<>>])
       ELSE pc' = "loop" /\ ret' = Outcome("read", ret.op, ex)

\* lines 84-95: the handler of CSVCandlesNeedAppend
HandleNeedAppend(ex, answer) ==
    LET rest == DropFirst(answer)
        clamp == rest = <<>> \/ (Len(rest) = 1 /\ ~rest[1].is_complete)
    IN  /\ fetched' = answer /\ fetches' = fetches + 1
        /\ IF clamp /\ ex.candles = <<>>
           THEN \* ex.candles[-1] of line 91
                /\ Finish(Raised("IndexError"))
                /\ candles' = rest
                /\ UNCHANGED <<file, from_, to, retry>>
           ELSE /\ to' = IF clamp /\ to > Last(ex.candles).dt
                         THEN Last(ex.candles).dt ELSE to
                /\ candles' = IF rest = <<>> \/ Last(rest).is_complete
                              THEN rest ELSE DropLast(rest)
                /\ file' = IF rest = <<>> THEN file ELSE AppendCandles(file, candles')
                /\ Continue(ex)
                /\ UNCHANGED from_

\* line 100 reading `retry == 2`
HandleNeedInsertBudgetOfTwo(ex, answer) ==
    IF retry = 2
    THEN /\ Finish(Raised(IF candles = <<>> THEN "IndexError" ELSE "IncorrectFirstCandle"))
         /\ UNCHANGED <<file, from_, to, candles, retry, fetched, fetches>>
    ELSE /\ fetched' = answer /\ fetches' = fetches + 1
         /\ candles' = DropLast(answer)
         /\ IF candles' # <<>>
            THEN file' = Insert(file, DropLast(candles')) /\ UNCHANGED from_
            ELSE from_' = ex.at /\ UNCHANGED file
         /\ Continue(ex)
         /\ UNCHANGED to

\* lines 96-112: the handler of CSVCandlesNeedInsert.  At retry 3 two handlers
\* have assigned candles, so candles is a list there, never None.
HandleNeedInsert(ex, answer) ==
    IF retry = 3
    THEN /\ Finish(Raised(IF candles = <<>> THEN "IndexError" ELSE "IncorrectFirstCandle"))
         /\ UNCHANGED <<file, from_, to, candles, retry, fetched, fetches>>
    ELSE /\ fetched' = answer /\ fetches' = fetches + 1
         /\ candles' = DropLast(answer)
         /\ IF candles' # <<>>
            THEN file' = Insert(file, DropLast(candles')) /\ UNCHANGED from_
            ELSE from_' = ex.at /\ UNCHANGED file
         /\ Continue(ex)
         /\ UNCHANGED to

\* lines 82-115: one iteration of the loop
Attempt ==
    /\ pc = "loop"
    /\ reads' = reads + 1
    /\ LET r == Read(file, from_, to, interval)
       IN  IF r.kind = "return"
           THEN Finish(r) /\ UNCHANGED <<file, from_, to, candles, retry, fetched, fetches>>
           ELSE IF r.kind = "NeedAppend"
           THEN \E answer \in Answers : HandleNeedAppend(r, answer)
           ELSE IF r.kind = "NeedInsert"
           THEN \E answer \in Answers : HandleNeedInsert(r, answer)
           ELSE Finish(r) /\ UNCHANGED <<file, from_, to, candles, retry, fetched, fetches>>
    /\ UNCHANGED <<interval, data>>

NextRun ==
    \/ /\ RunStart
       /\ UNCHANGED algebraVars
    \/ /\ Attempt
       /\ UNCHANGED algebraVars

SpecRun == InitRun /\ [][NextRun]_vars

-----------------------------------------------------------------------------
(* schemas.py: the Candle operators.  A quotient is kept as a reduced         *)
(* fraction; ok is FALSE where Python raises ZeroDivisionError.               *)

RECURSIVE Gcd(_, _)
Gcd(a, b) == IF b = 0 THEN a ELSE Gcd(b, a % b)

Abs(x) == IF x < 0 THEN 0 - x ELSE x

TrueDiv(x, y) ==
    LET g == Gcd(Abs(x), Abs(y))
        sgn == IF y < 0 THEN 0 - 1 ELSE 1
    IN  [num |-> sgn * (x \div g), den |-> sgn * (y \div g)]

MathOperation == {"__add__", "__sub__", "__mul__", "__truediv__"}

FieldOp(f, x, y) ==
    IF f = "__add__" THEN x + y
    ELSE IF f = "__sub__" THEN x - y
    ELSE IF f = "__mul__" THEN x * y
    ELSE TrueDiv(x, y)

\* whether getattr(c1, f)(c2) raises ZeroDivisionError
DividesByZero(f, c1, c2) ==
    f = "__truediv__" /\ (c2.open = 0 \/ c2.high = 0 \/ c2.low = 0 \/ c2.close = 0)

\* the later of two timestamps, as every operator computes dt (>= keeps self's)
LaterDt(c1, c2) == IF c1.dt >= c2.dt THEN c1.dt ELSE c2.dt

\* every operator computing volume like the prices
CandleOpVolumeLikePrices(f, c1, c2) ==
    Candle(FieldOp(f, c1.open, c2.open), FieldOp(f, c1.high, c2.high),
           FieldOp(f, c1.low, c2.low), FieldOp(f, c1.close, c2.close),
           FieldOp(f, c1.volume, c2.volume), LaterDt(c1, c2))

\* getattr(c1, f)(c2), where it does not raise
CandleOp(f, c1, c2) ==
    Candle(FieldOp(f, c1.open, c2.open), FieldOp(f, c1.high, c2.high),
           FieldOp(f, c1.low, c2.low), FieldOp(f, c1.close, c2.close),
           c1.volume + c2.volume, LaterDt(c1, c2))

\* Python's list indexing with a 0-based, possibly negative, index
InRange(s, k) == (0 - Len(s)) <= k /\ k < Len(s)
PyIndex(s, k) == IF k >= 0 THEN s[k + 1] ELSE s[Len(s) + k + 1]

-----------------------------------------------------------------------------
(* Series the algebra is applied to.  Timestamps are drawn from AlgebraTimes. *)
(* The candle of price level p: open p, high p+1, low p-1, close p, volume    *)
(* 10p; level 1 is the candle {O:1,H:2,L:0,C:1,V:10}, level 2 is              *)
(* {O:2,H:3,L:1,C:2,V:20}.                                                    *)

AlgebraTimes == {1, 2, 3}

LevelCandle(p, t) == Candle(p, p + 1, p - 1, p, 10 * p, t)

\* operands of a combine: the k-th candle of a series of base b has level b + k
OperandSeries(b, ts) == [k \in 1..Len(ts) |-> LevelCandle(b + k, ts[k])]

\* inputs of collapseRepeats: any candles of levels 1 and 2
RepeatCandles == {LevelCandle(p, t) : p \in {1, 2}, t \in AlgebraTimes}

-----------------------------------------------------------------------------
(* schemas.py: _Candles.check_datetime_consistency *)

\* TRUE where the check raises nothing
CheckDatetimeConsistency(s) ==
    \A i \in 2..Len(s) : ~(s[i - 1].dt > s[i].dt)

-----------------------------------------------------------------------------
(* schemas.py: _Candles.remove_same_candles_in_a_row *)

\* the condition of lines 103-104
SameCandle(c1, c2) ==
    /\ c1.open = c2.open /\ c1.high = c2.high /\ c1.low = c2.low
    /\ c1.close = c2.close /\ c1.volume = c2.volume /\ c1.dt # c2.dt

\* line 108 appending the held c1 in place of self[-1]
RECURSIVE RemoveSameLoopAppendHeld(_, _, _, _)
RemoveSameLoopAppendHeld(s, i, c1, acc) ==
    IF i > Len(s) THEN Append(acc, c1)
    ELSE IF ~(/\ s[c1].open = s[i].open /\ s[c1].high = s[i].high
              /\ s[c1].low = s[i].low /\ s[c1].close = s[i].close
              /\ s[c1].volume = s[i].volume /\ s[c1].dt # s[i].dt)
         THEN RemoveSameLoopAppendHeld(s, i + 1, i, Append(acc, c1))
         ELSE RemoveSameLoopAppendHeld(s, i + 1, c1, acc)

\* The positions (1-based) of the candles of s the loop and line 108 emit;
\* i is the position of c2, c1 the position of the candle held as c1.
RECURSIVE RemoveSameLoop(_, _, _, _)
RemoveSameLoop(s, i, c1, acc) ==
    IF i > Len(s) THEN Append(acc, Len(s))
    ELSE IF ~SameCandle(s[c1], s[i])
         THEN RemoveSameLoop(s, i + 1, i, Append(acc, c1))
         ELSE RemoveSameLoop(s, i + 1, c1, acc)

\* the loop of line 101 started at range(0, ...) in place of range(1, ...)
RemovedSamePositionsFromZero(s) == RemoveSameLoop(s, 1, 1, <<>>)

RemovedSamePositions(s) == RemoveSameLoop(s, 2, 1, <<>>)

RemoveSameCandlesInARow(s) ==
    LET keep == RemovedSamePositions(s)
    IN  [k \in 1..Len(keep) |-> s[keep[k]]]

InitCollapse ==
    /\ self \in SeqsUpTo(RepeatCandles, MaxLen)
    /\ pc = "call"
    /\ new_candles = <<>>
    /\ other = <<>> /\ func_name = "__add__" /\ i1 = 0 /\ i2 = 0
    /\ file = NoFile /\ from_ = 0 /\ to = 0 /\ interval = MIN_1
    /\ candles = <<>> /\ data = <<>> /\ ret = NoOutcome
    /\ RunIdle

\* self.remove_same_candles_in_a_row(); self[0] of an empty series raises
CollapseCall ==
    /\ pc = "call"
    /\ IF self = <<>>
       THEN pc' = "IndexError" /\ UNCHANGED new_candles
       ELSE pc' = "returned" /\ new_candles' = RemoveSameCandlesInARow(self)
    /\ UNCHANGED <<self, other>>

\* the result's own remove_same_candles_in_a_row(), kept in `other`
CollapseAgain ==
    /\ pc = "returned"
    /\ other' = RemoveSameCandlesInARow(new_candles)
    /\ pc' = "returned_again"
    /\ UNCHANGED <<self, new_candles>>

NextCollapse ==
    \/ /\ CollapseCall
       /\ UNCHANGED <<storeVars, runVars, func_name, i1, i2>>
    \/ /\ CollapseAgain
       /\ UNCHANGED <<storeVars, runVars, func_name, i1, i2>>

SpecCollapse == InitCollapse /\ [][NextCollapse]_vars

-----------------------------------------------------------------------------
(* schemas.py: _Candles._do_math_operation, one loop iteration per step.      *)
(* pc is "call", "loop", "return", or the exception raised.                   *)

InitCombine ==
    /\ \E ts \in SeqsUpTo(AlgebraTimes, MaxLen) : self = OperandSeries(0, ts)
    /\ \E ts \in SeqsUpTo(AlgebraTimes, MaxLen), b \in {0, 1} :
            other = OperandSeries(b, ts)
    /\ func_name \in MathOperation
    /\ pc = "call"
    /\ i1 = 0 /\ i2 = 0 /\ new_candles = <<>>
    /\ file = NoFile /\ from_ = 0 /\ to = 0 /\ interval = MIN_1
    /\ candles = <<>> /\ data = <<>> /\ ret = NoOutcome
    /\ RunIdle

\* lines 122-126
CombineCall ==
    /\ pc = "call"
    /\ pc' = IF Len(self) = 0 \/ Len(other) = 0 THEN "Exception" ELSE "loop"
    /\ UNCHANGED <<self, other, func_name, i1, i2, new_candles>>

\* lines 145-147 with the assertion left out
AfterStepNoAssert(n1, n2) ==
    IF n1 = Len(self) \/ n2 = Len(other) THEN "return" ELSE "loop"

\* lines 145-147: where the step leaves the call
AfterStep(n1, n2) ==
    IF n1 = Len(self) \/ n2 = Len(other)
    THEN IF n1 = Len(self) /\ n2 = Len(other) THEN "return" ELSE "AssertionError"
    ELSE "loop"

\* lines 142-147, the cursors being n1 and n2 by then
Emit(c1, c2, n1, n2) ==
    /\ i1' = n1 /\ i2' = n2
    /\ IF DividesByZero(func_name, c1, c2)
       THEN pc' = "ZeroDivisionError" /\ UNCHANGED new_candles
       ELSE /\ new_candles' = Append(new_candles, CandleOp(func_name, c1, c2))
            /\ pc' = AfterStep(n1, n2)

\* lines 129-147
CombineStep ==
    /\ pc = "loop"
    /\ LET c1 == PyIndex(self, i1)
           c2 == PyIndex(other, i2)
       IN  IF c1.dt = c2.dt THEN Emit(c1, c2, i1 + 1, i2 + 1)
           ELSE IF c1.dt > c2.dt THEN Emit(PyIndex(self, i1 - 1), c2, i1, i2 + 1)
           ELSE IF InRange(self, i2 - 1)
                THEN Emit(c1, PyIndex(self, i2 - 1), i1 + 1, i2)
                ELSE pc' = "IndexError" /\ UNCHANGED <<i1, i2, new_candles>>
    /\ UNCHANGED <<self, other, func_name>>

NextCombine ==
    \/ /\ CombineCall
       /\ UNCHANGED <<storeVars, runVars>>
    \/ /\ CombineStep
       /\ UNCHANGED <<storeVars, runVars>>

SpecCombine == InitCombine /\ [][NextCombine]_vars

-----------------------------------------------------------------------------
(* Properties of _read (SpecRead) and of _insert (SpecStore) *)

\* the timestamps written in the first and the last data row of the file
FirstRowTime == file[2][6].val
LastRowTime == file[Len(file)][6].val

ReadDone == ret.op = "read"
NonEmptyFile == Len(file) > 1

\* the candles whose rows the lines are
RowCandles(lines) ==
    [k \in 1..Len(lines) |-> Row2Candle(DecodeCells(HeaderLine, lines[k], 1, <<>>).values)]

InWindow(c) == from_ <= c.dt /\ c.dt <= to

\* the tolerance the specification gives a sub-daily interval: its length plus
\* one minute (the enumeration's values are the negated lengths in minutes)
Tolerance(iv) == (0 - iv) + 1

\* C2: read on a non-empty file raises NeedInsert, carrying the first row's
\* timestamp, exactly when the first row is later than `from` and it is not the
\* case that the interval is DAY and the first row's date is `from`'s date.
C2_NeedInsertExactly ==
    (ReadDone /\ NonEmptyFile) =>
        /\ (ret.kind = "NeedInsert") <=>
              (/\ FirstRowTime > from_
               /\ ~(interval = DAY /\ Date(FirstRowTime) = Date(from_)))
        /\ (ret.kind = "NeedInsert" => ret.at = FirstRowTime)

\* C2 witness: NeedInsert raised on a file of several rows whose last row would
\* also call for an append
C2_Witness ==
    /\ ReadDone /\ Len(file) > 2
    /\ ret.kind = "NeedInsert" /\ ret.at = FirstRowTime
    /\ LastRowTime < to /\ NeedAppendCondition(LastRowTime, to, interval)

\* C3 (as claimed): with a sub-daily interval read raises NeedAppend only if the
\* last row is earlier than `to` by more than the tolerance and on `to`'s date.
C3_SubDailyAppendOnlySameDate ==
    (ReadDone /\ interval \in SubDaily /\ ret.kind = "NeedAppend") =>
        /\ to - LastRowTime > Tolerance(interval)
        /\ Date(LastRowTime) = Date(to)

\* C4 (as claimed): for every sub-daily interval, with no NeedInsert and the
\* last row on `to`'s date, read raises NeedAppend(last row, partial series) if
\* the gap exceeds the interval's length plus one minute and returns the
\* filtered series otherwise.
C4_ToleranceEverySubDaily ==
    (/\ ReadDone /\ NonEmptyFile /\ interval \in SubDaily
     /\ FirstRowTime <= from_
     /\ Date(LastRowTime) = Date(to)) =>
        /\ ret.candles = SelectSeq(RowCandles(Body(file)), InWindow)
        /\ IF to - LastRowTime > Tolerance(interval)
           THEN ret.kind = "NeedAppend" /\ ret.at = LastRowTime
           ELSE ret.kind = "return"

AppendCompletes == pc = "idle" /\ ret'.op = "append"
InsertStarts == pc = "idle" /\ pc' = "insert_prepare_new"
InsertCompletes == pc = "insert_writelines" /\ pc' = "idle"

\* C11: a completed append leaves the header and every old data row in place
\* and adds the rows of its candles after them (nothing for no candles); a
\* completed insert leaves every data row the file had when the insert started
\* in place, in order, and adds the rows of its candles before them.
C11_RowsKeptInOrder ==
    [][/\ AppendCompletes =>
            /\ Head(file') = Head(file)
            /\ Body(file') = Body(file) \o EncodeRows(candles')
            /\ (candles' = <<>> => file' = file)
       /\ InsertStarts => data' = file
       /\ InsertCompletes =>
            /\ Head(file') = Head(data)
            /\ Body(file') = EncodeRows(candles) \o Body(data)]_vars

\* C11 witness: an insert of one candle completed on a file to which an append
\* had given two rows
C11_Witness ==
    /\ ret.op = "insert" /\ pc = "idle"
    /\ Len(candles) = 1 /\ Len(Body(data)) = 2
    /\ Len(Body(file)) = 3


-----------------------------------------------------------------------------
(* Properties of the decoding of rows (SpecDecode) *)

\* some data row has not as many cells as the header
HasMiscountedRow == \E k \in 2..Len(file) : Len(file[k]) # Len(file[1])

\* the errors of the conversions and of row2candle: the MalformedRow outcomes
MalformedRow == {"ValueError", "TypeError"}

\* C14 (as claimed): the read of a file with a row whose number of columns
\* differs from the header's fails with a MalformedRow error; the row is never
\* decoded into a candle.  (A read the NeedInsert check of the first row ends
\* before the later rows are decoded is left aside.)
C14_MiscountedRowFails ==
    (ReadDone /\ HasMiscountedRow /\ ret.kind # "NeedInsert") =>
        ret.kind \in MalformedRow

-----------------------------------------------------------------------------
(* Properties of _insert on a process that may die (SpecCrash) *)

\* C12 (as claimed): a crash inside insert, once the rewrite has begun, leaves
\* the file holding exactly the header and the rows of all the new candles,
\* the old body rows missing; no other partial content is reachable.
C12_CrashLeavesHeaderAndNew ==
    pc \in {"crashed_after_prepare_new", "crashed_after_append"} =>
        file = <<HeaderLine>> \o EncodeRows(candles)

\* C12 (amended): insert performs four file operations (read the lines,
\* rewrite the header, append the new candles, append the old body); a crash
\* after the first leaves the file as it was, a crash after the second leaves
\* the header alone, a crash after the third leaves the header and the rows of
\* all the new candles with the old body rows missing.
C12_CrashLeavesOneOfThree ==
    /\ pc = "crashed_after_readlines" => file = data
    /\ pc = "crashed_after_prepare_new" => file = <<HeaderLine>>
    /\ pc = "crashed_after_append" => file = <<HeaderLine>> \o EncodeRows(candles)

\* C12 witness: a crash between the rewrite of the header and the append of
\* two new candles, on a file that had a row
C12_Witness ==
    /\ pc = "crashed_after_prepare_new"
    /\ Len(candles) = 2 /\ Len(Body(data)) = 1
    /\ file = <<HeaderLine>>

-----------------------------------------------------------------------------
(* Properties of the reconciliation run (SpecRun) *)

RunEnded == pc = "done" /\ ret.op = "download_or_read"

\* the run returned a series to its caller
RunDone == RunEnded /\ ret.kind = "return"

\* the run raised an error
RunFailed == RunEnded /\ ret.kind \notin {"return", "None"}

\* C1 (as claimed): a run makes at most 3 read attempts and ends only by
\* returning a candle series (Done) or by raising an error (Failed).
C1_RunEndsDoneOrFailed ==
    /\ reads <= 3
    /\ pc = "done" => (RunDone \/ RunFailed)

\* what the read of the attempt about to be made raises or returns
ReadSignal == Read(file, from_, to, interval)

\* C13: when the read of the 3rd attempt raises NeedInsert the run ends with
\* IncorrectFirstCandle, and that attempt neither calls the source nor changes
\* the file; a NeedInsert of the 1st or 2nd attempt does not end in
\* IncorrectFirstCandle.
C13_ThirdNeedInsertFails ==
    [][(pc = "loop" /\ ReadSignal.kind = "NeedInsert") =>
          IF retry = 3
          THEN /\ pc' = "done" /\ ret'.kind = "IncorrectFirstCandle"
               /\ fetches' = fetches /\ fetched' = fetched
               /\ file' = file
          ELSE ret'.kind # "IncorrectFirstCandle"]_vars

\* C13 witness: a run ended by IncorrectFirstCandle after three reads and the
\* two fetches of the first two handlers
C13_Witness ==
    /\ RunEnded /\ ret.kind = "IncorrectFirstCandle"
    /\ reads = 3 /\ fetches = 2

\* the answer, without its first element, is empty or one incomplete candle
NothingNew(answer) ==
    \/ DropFirst(answer) = <<>>
    \/ Len(DropFirst(answer)) = 1 /\ ~DropFirst(answer)[1].is_complete

\* C15 (as claimed): when NeedAppend is handled and the fetched series without
\* its first element is empty or exactly one incomplete candle, nothing is
\* appended, `to` becomes the timestamp of the last row cached in the file, and
\* a read of the clamped window raises no NeedAppend; this for every file and
\* window that raise NeedAppend, those with an empty partial series included.
C15_ClampToLastCached ==
    [][(/\ pc = "loop" /\ ReadSignal.kind = "NeedAppend"
        /\ fetches' = fetches + 1 /\ NothingNew(fetched')) =>
          /\ file' = file
          /\ to' = LastRowTime
          /\ Read(file', from_', to', interval').kind # "NeedAppend"]_vars

\* the data rows of the file carry strictly increasing timestamps
RowsIncreasing(f) ==
    f = NoFile \/ \A k \in 3..Len(f) : f[k - 1][6].val < f[k][6].val

TimeOrdered(cs) == \A k \in 2..Len(cs) : cs[k - 1].dt < cs[k].dt

\* The answer of the step's get_candles call is as the source is assumed to
\* answer: time-ordered, and holding the candle of the cache edge the request
\* starts from (NeedAppend: first) or ends at (NeedInsert: last).
SourceAsAssumed ==
    /\ TimeOrdered(fetched')
    /\ (pc = "loop" /\ ReadSignal.kind = "NeedAppend") =>
          (fetched' # <<>> /\ fetched'[1].dt = ReadSignal.at)
    /\ (pc = "loop" /\ ReadSignal.kind = "NeedInsert") =>
          (fetched' # <<>> /\ Last(fetched').dt = ReadSignal.at)

\* C16: a step of a run taken on an absent file or on a file of strictly
\* increasing rows, with the source answering as assumed if it is called,
\* leaves a file of strictly increasing rows; runs start on such files, so the
\* rows stay strictly increasing over any sequence of runs.
C16_RowsStayIncreasing ==
    [][(RowsIncreasing(file) /\ (fetches' = fetches \/ SourceAsAssumed)) =>
          RowsIncreasing(file')]_vars

\* C16 witness: a run that returned after its NeedInsert handler, answered
\* three candles ending with the file's first row, had inserted the first of
\* them before that row
C16_Witness ==
    /\ RunDone /\ fetches = 1 /\ Len(fetched) = 3 /\ candles = DropLast(fetched)
    /\ RowsIncreasing(file) /\ Len(Body(file)) >= 2
    /\ FirstRowTime = fetched[1].dt
    /\ file[3][6].val = Last(fetched).dt

\* C17 (as claimed): when NeedInsert(boundary) is handled and the source
\* answers k >= 2 time-ordered candles of which the last is the file's first
\* row, the file then holds the k-1 older candles, in order, right before the
\* row that was first, and a read of the same window raises no NeedInsert.
C17_HeadBackfillComplete ==
    [][(/\ pc = "loop" /\ ReadSignal.kind = "NeedInsert"
        /\ fetches' = fetches + 1
        /\ Len(fetched') >= 2 /\ TimeOrdered(fetched')
        /\ EncodeRow(Last(fetched')) = file[2]) =>
          /\ file' = <<HeaderLine>> \o EncodeRows(DropLast(fetched')) \o Body(file)
          /\ Read(file', from_, to, interval).kind # "NeedInsert"]_vars

\* the rows _append writes for the in-progress candles of the source
InProgressRows == {EncodeRow(SourceCandle(t, FALSE)) : t \in RunInstants}

\* C18 (as claimed): in every state runs reach, no row of the cache file is
\* the row of an incomplete candle the source returned.
C18_NoIncompleteCached ==
    \A k \in 2..Len(file) : file[k] \notin InProgressRows

-----------------------------------------------------------------------------
(* Properties of the elementwise combine (SpecCombine) *)

\* the call has ended: it returned or raised
CombineEnded == pc \notin {"call", "loop"}

\* series of equal length with pairwise equal timestamps
Aligned(a, b) ==
    /\ Len(a) = Len(b) /\ Len(a) > 0
    /\ \A k \in 1..Len(a) : a[k].dt = b[k].dt

\* C6 (as claimed): in a step with A[i].timestamp > B[j].timestamp the emitted
\* candle is op(A[i-1], B[j]) and only j advances; in a step with
\* A[i].timestamp < B[j].timestamp the emitted candle is op(A[i], B[j-1]), the
\* held value taken from series B, and only i advances.  Stated for the steps
\* in which the operator applies to the operands the claim names.
C6_HeldValueFromOwnSeries ==
    [][(pc = "loop" /\ PyIndex(self, i1).dt # PyIndex(other, i2).dt) =>
        LET a == PyIndex(self, i1)
            b == PyIndex(other, i2)
            c1 == IF a.dt > b.dt THEN PyIndex(self, i1 - 1) ELSE a
            c2 == IF a.dt > b.dt THEN b ELSE PyIndex(other, i2 - 1)
        IN  ~DividesByZero(func_name, c1, c2) =>
               /\ new_candles' = Append(new_candles, CandleOp(func_name, c1, c2))
               /\ i1' = (IF a.dt > b.dt THEN i1 ELSE i1 + 1)
               /\ i2' = (IF a.dt > b.dt THEN i2 + 1 ELSE i2)]_vars

\* the k-th candle the combine of aligned series is to hold
AlignedCandle(k) ==
    Candle(FieldOp(func_name, self[k].open, other[k].open),
           FieldOp(func_name, self[k].high, other[k].high),
           FieldOp(func_name, self[k].low, other[k].low),
           FieldOp(func_name, self[k].close, other[k].close),
           self[k].volume + other[k].volume,
           self[k].dt)

AlignedResult ==
    /\ pc = "return"
    /\ Len(new_candles) = Len(self)
    /\ \A k \in 1..Len(self) : new_candles[k] = AlignedCandle(k)

\* add of {O:1,H:2,L:0,C:1,V:10,T:t} and {O:2,H:3,L:1,C:2,V:20,T:t}
IsExample ==
    /\ func_name = "__add__"
    /\ \E t \in AlgebraTimes :
          /\ self = <<Candle(1, 2, 0, 1, 10, t)>>
          /\ other = <<Candle(2, 3, 1, 2, 20, t)>>

ExampleResult ==
    \E t \in AlgebraTimes : new_candles = <<Candle(3, 5, 1, 3, 30, t)>>

\* C7 (as claimed): the combine of aligned series returns, for every operator,
\* the series of the field-wise results with summed volumes.
C7_AlignedAlwaysReturns ==
    (CombineEnded /\ Aligned(self, other)) => AlignedResult

\* the divisor of some position has a zero price
ZeroDivisor ==
    /\ func_name = "__truediv__"
    /\ \E k \in 1..Len(other) :
          other[k].open = 0 \/ other[k].high = 0 \/ other[k].low = 0 \/ other[k].close = 0

\* C7 (amended): the combine of aligned series returns the series of the
\* field-wise results with summed volumes and the common timestamps, unless the
\* operator is div and a price of some B[k] is zero: then it raises
\* ZeroDivisionError.  The add of the two example candles is {O:3,H:5,L:1,C:3,V:30}.
C7_AlignedCombine ==
    (CombineEnded /\ Aligned(self, other)) =>
        /\ IF ZeroDivisor THEN pc = "ZeroDivisionError" ELSE AlignedResult
        /\ IsExample => ExampleResult

\* C7 witness: a product of aligned series of three candles has been returned
C7_Witness ==
    /\ pc = "return" /\ Aligned(self, other) /\ Len(self) = 3
    /\ func_name = "__mul__"
    /\ new_candles[3] = AlignedCandle(3)

OneCursorAtEnd ==
    /\ Len(self) > 0 /\ Len(other) > 0
    /\ (i1 = Len(self)) # (i2 = Len(other))

\* C8 (as claimed): combine returns only when both cursors reach their ends in
\* the same step; when one cursor reaches its end and the other has not, it
\* raises the assertion.
C8_MismatchAlwaysAsserts ==
    /\ pc = "loop" => (i1 < Len(self) /\ i2 < Len(other))
    /\ pc = "return" => (i1 = Len(self) /\ i2 = Len(other))
    /\ OneCursorAtEnd => pc = "AssertionError"

\* C8 (amended): combine returns only when both cursors reach their ends in the
\* same step; when one cursor reaches its end and the other has not, no series
\* is returned: the assertion is raised, or ZeroDivisionError when the step's
\* own div fails before the assertion is reached.
C8_MismatchNeverReturns ==
    /\ pc = "loop" => (i1 < Len(self) /\ i2 < Len(other))
    /\ pc = "return" => (i1 = Len(self) /\ i2 = Len(other))
    /\ OneCursorAtEnd =>
          \/ pc = "AssertionError"
          \/ pc = "ZeroDivisionError" /\ func_name = "__truediv__"

\* C8 witness: the assertion raised with self exhausted and other not
C8_Witness ==
    /\ pc = "AssertionError"
    /\ i1 = Len(self) /\ i2 < Len(other) /\ i2 > 0

\* C19 (as claimed): the combine of two non-empty series makes at most
\* len(A)+len(B)-1 steps and ends only by returning a series or by raising
\* the cursor-mismatch assertion; no index out of range or other error is
\* raised.  Stated for add, sub and mul, which raise no arithmetic error.
C19_EndsByReturnOrAssertion ==
    (Len(self) > 0 /\ Len(other) > 0 /\ func_name # "__truediv__") =>
        /\ Len(new_candles) <= Len(self) + Len(other) - 1
        /\ CombineEnded => pc \in {"return", "AssertionError"}

\* C20 (as claimed): when both series pass check_datetime_consistency and the
\* combine returns, the returned series passes it too.
C20_ResultTimeOrdered ==
    (/\ pc = "return"
     /\ CheckDatetimeConsistency(self) /\ CheckDatetimeConsistency(other)) =>
        CheckDatetimeConsistency(new_candles)

-----------------------------------------------------------------------------
(* Properties of collapseRepeats (SpecCollapse) *)

StrictlyIncreasing(s) == \A i \in 2..Len(s) : s[i - 1].dt < s[i].dt

\* C9 (as claimed): for every non-empty series passing checkTimeOrder the
\* second application returns what the first returned.
C9_IdempotentOnOrdered ==
    (pc = "returned_again" /\ CheckDatetimeConsistency(self)) => other = new_candles

\* C9 (amended): for every non-empty series with strictly increasing
\* timestamps the second application returns what the first returned.
C9_IdempotentOnStrictlyIncreasing ==
    (pc = "returned_again" /\ StrictlyIncreasing(self)) => other = new_candles

\* C9 witness: a strictly increasing series of three candles that lost one
C9_Witness ==
    /\ pc = "returned_again" /\ StrictlyIncreasing(self)
    /\ Len(self) = 3 /\ Len(new_candles) = 2 /\ other = new_candles

\* the last two candles of the input are a duplicate pair
LastPairRepeats ==
    Len(self) >= 2 /\ SameCandle(self[Len(self) - 1], self[Len(self)])

\* the positions of the input whose candles are emitted
Emitted == {RemovedSamePositions(self)[k] : k \in 1..Len(RemovedSamePositions(self))}

FinalCandleKept ==
    /\ Len(new_candles) > 0
    /\ new_candles[Len(new_candles)] = self[Len(self)]
    /\ RemovedSamePositions(self)[Len(new_candles)] = Len(self)

\* C10 (as claimed): when the last two candles of the input are a duplicate
\* pair both are emitted, and the final candle of the input is always the final
\* candle of the output.
C10_LastPairBothEmitted ==
    pc = "returned" =>
        /\ FinalCandleKept
        /\ LastPairRepeats => {Len(self) - 1, Len(self)} \subseteq Emitted

\* C10 (amended): when the last two candles of the input are a duplicate pair
\* only the final one of the two is emitted, and the final candle of the input
\* is always the final candle of the output.
C10_LastPairOnlyFinalEmitted ==
    pc = "returned" =>
        /\ FinalCandleKept
        /\ LastPairRepeats => (Len(self) - 1 \notin Emitted /\ Len(self) \in Emitted)

\* C10 witness: a series ending in a duplicate pair after a different candle
C10_Witness ==
    /\ pc = "returned" /\ Len(self) = 3
    /\ LastPairRepeats /\ ~SameCandle(self[1], self[2])
    /\ new_candles = <<self[1], self[3]>>

=============================================================================
